---- MODULE Spec2Model ----
(***************************************************************************)
(* Model of the flow note graph (crates/core/src/graph.rs): the graph      *)
(* session (path, metadata, document, dirty), the files it keeps under the *)
(* graph root (.flow/graph.toml, .flow/graph.loro, journal/<date>.md) and  *)
(* the operations Graph::init, Graph::load, Graph::add and Graph::save,    *)
(* together with the environment: an external editor changing the files,   *)
(* the calendar day advancing, I/O faults and the process stopping; and of  *)
(* the registry of graphs (crates/core/src/config.rs) with the command     *)
(* line's choice of the graph to load (crates/cli/src/common.rs).          *)
(***************************************************************************)
EXTENDS Integers, Sequences, FiniteSets, TLC

\* ------------------------------------------------------------------ bounds
\* Calendar days the clock runs through, calls of Graph::add, changes made
\* to the files from outside, and I/O faults or crashes.
MaxDay == 2
MaxAdds == 2
MaxEdits == 1
MaxFaults == 2

\* --------------------------------------------------------------- constants
JOURNAL_DIR == "journal"
\* env!("CARGO_PKG_VERSION") and path.file_name() of the graph root
PkgVersion == "0.1.0"
Basename == "notes"

\* Texts are sequences of characters.
NL == "\n"
Days == 1..MaxDay
\* The content arguments of add, the lines and texts an editor writes, and
\* the name argument of init ("None": no name given).
Contents == {<<"a">>, <<"b">>}
ExternalLines == {<<"x">>}
ExternalTexts == {<< >>, <<"x">>}
NameArgs == {"None", "work"}
\* The step of add or save that fails: create_dir_all, the metadata write,
\* the snapshot write, a journal file write.
Faults == {"none", "mkdir", "meta", "snap", "file"}

\* ------------------------------------------------------------ file values
Absent == [kind |-> "absent", text |-> << >>]
Binary == [kind |-> "binary", text |-> << >>]
TextFile(t) == [kind |-> "text", text |-> t]

NoMeta == [kind |-> "absent", name |-> "", version |-> ""]
CorruptMeta == [kind |-> "corrupt", name |-> "", version |-> ""]
NoSnapshot == [kind |-> "absent", data |-> {}]
CorruptSnapshot == [kind |-> "corrupt", data |-> {}]

\* struct Metadata { name, version }
Metadata(n, v) == [name |-> n, version |-> v]

\* toml::to_string_pretty(&metadata): the metadata file holding name, version
MetaToToml(m) == [kind |-> "valid", name |-> m.name, version |-> m.version]

\* toml::from_str(&metadata_json): the Metadata a valid file parses to
MetaFromToml(f) == Metadata(f.name, f.version)

\* format!("{}/{}.md", JOURNAL_DIR, today): the document id of a day
DocId(day) == <<JOURNAL_DIR, day>>

Ids == {DocId(d) : d \in Days}
DayOf(id) == id[2]

\* LoroDoc::new(): every text container renders as the empty string
EmptyDoc == [id \in Ids |-> << >>]

\* An export that holds no container.
ExportEmpty(doc) == [kind |-> "valid", data |-> {}]

\* doc.export(ExportMode::Snapshot): the entries of the non-empty containers
Export(doc) == [kind |-> "valid",
                data |-> {<<id, doc[id]>> : id \in {i \in Ids : doc[i] # << >>}}]

\* doc.import(&doc_content) into a new LoroDoc
Import(snap) ==
    [id \in Ids |-> IF \E e \in snap.data : e[1] = id
                    THEN (CHOOSE e \in snap.data : e[1] = id)[2]
                    ELSE << >>]

RECURSIVE CommonPrefix(_, _)
CommonPrefix(a, b) ==
    IF a = << >> \/ b = << >> \/ Head(a) # Head(b) THEN 0
    ELSE 1 + CommonPrefix(Tail(a), Tail(b))

Reverse(s) == [i \in 1..Len(s) |-> s[Len(s) + 1 - i]]

\* An update that keeps all of the current value and adds what is new.
UpdateAppends(cur, new) ==
    cur \o SubSeq(new, CommonPrefix(cur, new) + 1, Len(new))

\* An update that leaves the current value as it is.
UpdateKeepsCurrent(cur, new) == cur

\* text.update(&existing, UpdateOptions::default()): keep the common prefix
\* and suffix of the current value, replace what lies between them
Update(cur, new) ==
    LET p == CommonPrefix(cur, new)
        restCur == SubSeq(cur, p + 1, Len(cur))
        restNew == SubSeq(new, p + 1, Len(new))
        s == CommonPrefix(Reverse(restCur), Reverse(restNew))
    IN  SubSeq(cur, 1, p)
          \o SubSeq(restNew, 1, Len(restNew) - s)
          \o SubSeq(restCur, Len(restCur) - s + 1, Len(restCur))

\* format!("\n- {}", content)
FormatLine(content) == <<NL, "-", " ">> \o content

\* ------------------------------------------------------- registry values
\* Option::None
None == "None"

\* The names spaces are registered under, the canonical paths they live
\* at, and the name_or_path arguments: a name can spell a path.
SpaceNames == {"/p", "a", "b"}
SpacePaths == {"/p", "/q"}
NameOrPaths == SpaceNames \cup SpacePaths \cup {"zz"}

\* The bytes of a string.
Utf8(s) ==
    CASE s = "/p" -> <<47, 112>>
      [] s = "/q" -> <<47, 113>>
      [] s = "a" -> <<97>>
      [] s = "b" -> <<98>>
      [] s = "zz" -> <<122, 122>>

\* impl Ord for str: lexicographic order of the bytes
RECURSIVE LexLess(_, _)
LexLess(x, y) ==
    IF y = << >> THEN FALSE
    ELSE IF x = << >> THEN TRUE
    ELSE IF Head(x) # Head(y) THEN Head(x) < Head(y)
    ELSE LexLess(Tail(x), Tail(y))

StrLess(a, b) == LexLess(Utf8(a), Utf8(b))

\* Config::default(): no space, no active space
DefaultConfig == [spaces |-> [n \in SpaceNames |-> None], active_space |-> None]

\* No command is being executed.
IdleExec == [pc |-> "idle", json |-> FALSE, cmd |-> None, steps |-> << >>]

\* ------------------------------------------------------------------ state
VARIABLES
    disk,       \* the files under the graph root
    session,    \* the Graph value held by the running process
    today,      \* Local::now() as a day number
    adds,       \* number of calls of Graph::add so far
    edits,      \* number of external changes made so far
    faults,     \* number of I/O faults and crashes so far
    committed,  \* the document as of the last snapshot write that completed
    last,       \* the last operation, its arguments and its result
    prev,       \* the operation before the last one
    config,     \* the Config value held by the running process
    config_file,\* the configuration stored in flow.toml
    roots,      \* what the file system holds at the paths of the spaces
    exec        \* the position of Command::execute and the steps it has run

vars == <<disk, session, today, adds, edits, faults, committed, last, prev,
          config, config_file, roots, exec>>
budget == <<adds, edits, faults>>

NoSession == [open |-> FALSE, metadata |-> Metadata("", ""),
              document |-> EmptyDoc, dirty |-> {}]

EmptyDisk == [marker |-> FALSE, journal_dir |-> FALSE,
              meta_file |-> NoMeta, snap_file |-> NoSnapshot,
              files |-> [d \in Days |-> Absent]]

\* The record of an operation: its name, result, content argument, the
\* step that failed, the dirty set its save started from, the day whose
\* file it is about, and whether that day's entry was empty when it began.
Op(op, res, content, fault, dirty, day, fresh) ==
    [op |-> op, res |-> res, content |-> content, fault |-> fault,
     dirty |-> dirty, day |-> day, fresh |-> fresh]

Plain(op, res) == Op(op, res, << >>, "none", {}, today, FALSE)

Init ==
    /\ disk = EmptyDisk
    /\ session = NoSession
    /\ today = 1
    /\ adds = 0
    /\ edits = 0
    /\ faults = 0
    /\ committed = EmptyDoc
    /\ last = Op("none", "Ok", << >>, "none", {}, 1, FALSE)
    /\ prev = last
    /\ config = DefaultConfig
    /\ config_file = DefaultConfig
    /\ roots = [p \in SpacePaths |-> "missing"]
    /\ exec = IdleExec

\* Every step of the graph records the operation it takes; the registry is
\* not touched by it.
Record(o) ==
    /\ last' = o
    /\ prev' = last
    /\ UNCHANGED <<config, config_file, roots, exec>>

\* ------------------------------------------------------------- Graph::init
\* An init that writes its files without leaving the .flow marker.
GraphInitNoMarker(name) ==
    LET graph_name == IF name = "None" THEN Basename ELSE name
        metadata == Metadata(graph_name, PkgVersion)
        doc == EmptyDoc
    IN  /\ disk' = [disk EXCEPT !.journal_dir = TRUE,
                                !.meta_file = MetaToToml(metadata),
                                !.snap_file = Export(doc)]
        /\ session' = [open |-> TRUE, metadata |-> metadata,
                       document |-> doc, dirty |-> {}]
        /\ Record(Plain("Init", "Ok"))
        /\ committed' = doc
        /\ UNCHANGED <<today, budget>>

GraphInit(name) ==
    LET graph_name == IF name = "None" THEN Basename ELSE name
        metadata == Metadata(graph_name, PkgVersion)
        doc == EmptyDoc
    IN  /\ disk' = [disk EXCEPT !.marker = TRUE,
                                !.journal_dir = TRUE,
                                !.meta_file = MetaToToml(metadata),
                                !.snap_file = Export(doc)]
        /\ session' = [open |-> TRUE, metadata |-> metadata,
                       document |-> doc, dirty |-> {}]
        /\ Record(Plain("Init", "Ok"))
        /\ committed' = doc
        /\ UNCHANGED <<today, budget>>

\* ------------------------------------------------------------- Graph::load
\* A load that falls back to an empty store when the import fails.
LoadRunFallback(d) ==
    IF d.meta_file.kind = "absent" THEN [res |-> "NotFound", session |-> NoSession]
    ELSE IF d.meta_file.kind = "corrupt"
    THEN [res |-> "CorruptMetadata", session |-> NoSession]
    ELSE [res |-> "Ok",
          session |-> [open |-> TRUE,
                       metadata |-> MetaFromToml(d.meta_file),
                       document |-> IF d.snap_file.kind = "valid"
                                    THEN Import(d.snap_file) ELSE EmptyDoc,
                       dirty |-> {}]]

\* A load that requires the snapshot file to be there.
LoadRunNeedsSnapshot(d) ==
    IF d.meta_file.kind = "absent" \/ d.snap_file.kind = "absent"
    THEN [res |-> "NotFound", session |-> NoSession]
    ELSE IF d.meta_file.kind = "corrupt"
    THEN [res |-> "CorruptMetadata", session |-> NoSession]
    ELSE IF d.snap_file.kind = "corrupt"
    THEN [res |-> "CorruptSnapshot", session |-> NoSession]
    ELSE [res |-> "Ok",
          session |-> [open |-> TRUE,
                       metadata |-> MetaFromToml(d.meta_file),
                       document |-> Import(d.snap_file),
                       dirty |-> {}]]

\* The result of Graph::load on a disk: the error, or the session it returns.
LoadRun(d) ==
    IF d.meta_file.kind = "absent" THEN [res |-> "NotFound", session |-> NoSession]
    ELSE IF d.meta_file.kind = "corrupt"
    THEN [res |-> "CorruptMetadata", session |-> NoSession]
    ELSE IF d.snap_file.kind = "corrupt"
    THEN [res |-> "CorruptSnapshot", session |-> NoSession]
    ELSE [res |-> "Ok",
          session |-> [open |-> TRUE,
                       metadata |-> MetaFromToml(d.meta_file),
                       document |-> IF d.snap_file.kind = "valid"
                                    THEN Import(d.snap_file) ELSE EmptyDoc,
                       dirty |-> {}]]

GraphLoad ==
    LET r == LoadRun(disk)
    IN  /\ session' = IF r.res = "Ok" THEN r.session ELSE session
        /\ Record(Plain("Load", r.res))
        /\ UNCHANGED <<disk, today, budget, committed>>

\* ----------------------------------------------------------- Graph::exists
\* An exists that also asks for files Load can read.
ExistsValidates(d) ==
    d.marker /\ d.meta_file.kind = "valid" /\ d.snap_file.kind # "corrupt"

\* path.join(".flow").exists()
Exists(d) == d.marker

\* Graph::exists(path): an associated function, it takes no session.
GraphExists ==
    /\ Record(Plain("Exists", IF Exists(disk) THEN "true" ELSE "false"))
    /\ UNCHANGED <<disk, session, today, budget, committed>>

\* ------------------------------------------------------------- Graph::save
\* A loop over the dirty ids that stops after its first file.
WriteFilesFirstOnly(files, doc, W) ==
    [day \in Days |->
        IF W # {} /\ DocId(day) = (CHOOSE id \in W : TRUE)
        THEN TextFile(doc[DocId(day)]) ELSE files[day]]

\* A save that writes the file of every id, dirty or not.
WriteFilesAll(files, doc, W) ==
    [day \in Days |-> TextFile(doc[DocId(day)])]

\* fs::write(&file_path, text.to_string()) for the ids in W
WriteFiles(files, doc, W) ==
    [day \in Days |-> IF DocId(day) \in W THEN TextFile(doc[DocId(day)])
                      ELSE files[day]]

\* A save that derives the name from the root path again.
WriteMetadataDefaultName(d, s) ==
    [d EXCEPT !.meta_file = MetaToToml(Metadata(Basename, s.metadata.version))]

\* fs::write(metadata_path, toml::to_string_pretty(&self.metadata))
WriteMetadata(d, s) == [d EXCEPT !.meta_file = MetaToToml(s.metadata)]

\* A save that exports only the containers changed since the last save.
WriteSnapshotDirtyOnly(d, s) ==
    [d EXCEPT !.snap_file =
        Export([id \in Ids |-> IF id \in s.dirty THEN s.document[id] ELSE << >>])]

\* fs::write(doc_path, self.document.export(ExportMode::Snapshot))
WriteSnapshot(d, s) == [d EXCEPT !.snap_file = Export(s.document)]

\* A save that has cleared the dirty set before the write that fails.
FailedAtClearsDirty(at, d, s) ==
    [res |-> "IoError", at |-> at, disk |-> d,
     session |-> [s EXCEPT !.dirty = {}]]

\* A write fails: `?` returns the error, the session is left as it is.
FailedAt(at, d, s) ==
    [res |-> "IoError", at |-> at, disk |-> d, session |-> s]

\* A save that writes the dirty files before it writes the snapshot.
SaveRunFilesFirst(d, s, fault, W) ==
    IF fault = "meta" THEN FailedAt("meta", d, s)
    ELSE LET d1 == WriteMetadata(d, s) IN
    IF s.dirty # {} /\ ~d1.journal_dir THEN FailedAt("nodir", d1, s)
    ELSE IF fault = "file" /\ s.dirty # {}
    THEN FailedAt("file", [d1 EXCEPT !.files = WriteFiles(@, s.document, W)], s)
    ELSE LET d2 == [d1 EXCEPT !.files = WriteFiles(@, s.document, s.dirty)] IN
    IF fault = "snap" THEN FailedAt("snap", d2, s)
    ELSE [res |-> "Ok", at |-> "none", disk |-> WriteSnapshot(d2, s),
          session |-> [s EXCEPT !.dirty = {}]]

\* A save that writes the snapshot before the metadata.
SaveRunSnapshotFirst(d, s, fault, W) ==
    LET d1 == WriteSnapshot(d, s) IN
    IF fault = "meta" THEN FailedAt("meta", d1, s)
    ELSE LET d2 == WriteMetadata(d1, s) IN
    IF fault = "snap" THEN FailedAt("snap", d, s)
    ELSE IF s.dirty = {}
    THEN [res |-> "Ok", at |-> "none", disk |-> d2, session |-> s]
    ELSE IF ~d2.journal_dir THEN FailedAt("nodir", d2, s)
    ELSE IF fault = "file"
    THEN FailedAt("file", [d2 EXCEPT !.files = WriteFiles(@, s.document, W)], s)
    ELSE [res |-> "Ok", at |-> "none",
          disk |-> [d2 EXCEPT !.files = WriteFiles(@, s.document, s.dirty)],
          session |-> [s EXCEPT !.dirty = {}]]

\* A save that leaves the dirty set as it was after writing the files.
SaveRunKeepsDirty(d, s, fault, W) ==
    IF fault = "meta" THEN FailedAt("meta", d, s)
    ELSE LET d1 == WriteMetadata(d, s) IN
    IF fault = "snap" THEN FailedAt("snap", d1, s)
    ELSE LET d2 == WriteSnapshot(d1, s) IN
    IF s.dirty = {}
    THEN [res |-> "Ok", at |-> "none", disk |-> d2, session |-> s]
    ELSE IF ~d2.journal_dir THEN FailedAt("nodir", d2, s)
    ELSE IF fault = "file"
    THEN FailedAt("file", [d2 EXCEPT !.files = WriteFiles(@, s.document, W)], s)
    ELSE [res |-> "Ok", at |-> "none",
          disk |-> [d2 EXCEPT !.files = WriteFiles(@, s.document, s.dirty)],
          session |-> s]

\* Graph::save on disk d and session s.  fault names the write that fails
\* ("none": no write fails); W is the set of dirty ids whose files were
\* written before the failing file write (HashSet iteration order is
\* arbitrary).  at names the write that failed; a file write also fails
\* ("nodir") when the journal directory is missing.
SaveRun(d, s, fault, W) ==
    IF fault = "meta" THEN FailedAt("meta", d, s)
    ELSE LET d1 == WriteMetadata(d, s) IN
    IF fault = "snap" THEN FailedAt("snap", d1, s)
    ELSE LET d2 == WriteSnapshot(d1, s) IN
    IF s.dirty = {}
    THEN [res |-> "Ok", at |-> "none", disk |-> d2, session |-> s]
    ELSE IF ~d2.journal_dir THEN FailedAt("nodir", d2, s)
    ELSE IF fault = "file"
    THEN FailedAt("file", [d2 EXCEPT !.files = WriteFiles(@, s.document, W)], s)
    ELSE [res |-> "Ok", at |-> "none",
          disk |-> [d2 EXCEPT !.files = WriteFiles(@, s.document, s.dirty)],
          session |-> [s EXCEPT !.dirty = {}]]

\* The sets of files a failing loop over dirty can have written.
Written(s, fault) ==
    IF fault = "file" THEN (SUBSET s.dirty) \ {s.dirty} ELSE {{}}

\* A fault is offered only where the code reaches the write it names; the
\* process can stop (crash) instead of returning the error.
FaultReached(r, fault, crash) ==
    /\ fault # "none" => r.at = fault /\ faults < MaxFaults
    /\ crash => fault # "none"
    /\ faults' = IF fault # "none" THEN faults + 1 ELSE faults

Outcome(r, crash) == IF crash THEN "Crash" ELSE r.res

\* The snapshot write completes unless save fails at or before it.
Committed(r, s) ==
    IF r.at \in {"meta", "snap", "mkdir", "read"} THEN committed ELSE s.document

Save(fault, crash) ==
    /\ session.open
    /\ fault # "mkdir"
    /\ \E W \in Written(session, fault) :
         LET r == SaveRun(disk, session, fault, W)
         IN  /\ FaultReached(r, fault, crash)
             /\ disk' = r.disk
             /\ session' = IF crash THEN NoSession ELSE r.session
             /\ committed' = Committed(r, session)
             /\ Record(Op("Save", Outcome(r, crash), << >>, r.at,
                          session.dirty, today, FALSE))
    /\ UNCHANGED <<today, adds, edits>>

\* -------------------------------------------------------------- Graph::add
\* An add that appends and marks the id dirty before it reads the file.
AddRunAppendsFirst(d, s, day, content, fault) ==
    IF fault = "mkdir"
    THEN [res |-> "IoError", at |-> "mkdir", disk |-> d, session |-> s]
    ELSE LET d1 == [d EXCEPT !.journal_dir = TRUE]
             id == DocId(day)
             daily == d1.files[day]
             appended == [s EXCEPT !.document[id] = @ \o FormatLine(content),
                                   !.dirty = @ \cup {id}]
         IN
    IF daily.kind = "binary"
    THEN [res |-> "InvalidEncoding", at |-> "read", disk |-> d1,
          session |-> appended]
    ELSE LET cur == s.document[id]
             text == IF daily.kind = "text" THEN Update(cur, daily.text) ELSE cur
             pushed == text \o FormatLine(content)
         IN  [res |-> "Ok", at |-> "none", disk |-> d1,
              session |-> [s EXCEPT !.document[id] = pushed,
                                    !.dirty = @ \cup {id}]]

\* An add that puts the new line before the text of the day.
AddRunPrepends(d, s, day, content, fault) ==
    IF fault = "mkdir"
    THEN [res |-> "IoError", at |-> "mkdir", disk |-> d, session |-> s]
    ELSE LET d1 == [d EXCEPT !.journal_dir = TRUE]
             id == DocId(day)
             daily == d1.files[day]
         IN
    IF daily.kind = "binary"
    THEN [res |-> "InvalidEncoding", at |-> "read", disk |-> d1, session |-> s]
    ELSE LET cur == s.document[id]
             text == IF daily.kind = "text" THEN Update(cur, daily.text) ELSE cur
             pushed == FormatLine(content) \o text
         IN  [res |-> "Ok", at |-> "none", disk |-> d1,
              session |-> [s EXCEPT !.document[id] = pushed,
                                    !.dirty = @ \cup {id}]]

\* An add that takes the text of the day from the file alone: without a
\* file the value starts empty.
AddRunFileOnly(d, s, day, content, fault) ==
    IF fault = "mkdir"
    THEN [res |-> "IoError", at |-> "mkdir", disk |-> d, session |-> s]
    ELSE LET d1 == [d EXCEPT !.journal_dir = TRUE]
             id == DocId(day)
             daily == d1.files[day]
         IN
    IF daily.kind = "binary"
    THEN [res |-> "InvalidEncoding", at |-> "read", disk |-> d1, session |-> s]
    ELSE LET text == IF daily.kind = "text" THEN daily.text ELSE << >>
         IN  [res |-> "Ok", at |-> "none", disk |-> d1,
              session |-> [s EXCEPT !.document[id] = text \o FormatLine(content),
                                    !.dirty = @ \cup {id}]]

\* Graph::add up to the call of save: the error it returns early, or the
\* session with the line appended and the id marked dirty.
AddRun(d, s, day, content, fault) ==
    IF fault = "mkdir"
    THEN [res |-> "IoError", at |-> "mkdir", disk |-> d, session |-> s]
    ELSE LET d1 == [d EXCEPT !.journal_dir = TRUE]
             id == DocId(day)
             daily == d1.files[day]
         IN
    IF daily.kind = "binary"
    THEN [res |-> "InvalidEncoding", at |-> "read", disk |-> d1, session |-> s]
    ELSE LET cur == s.document[id]
             text == IF daily.kind = "text" THEN Update(cur, daily.text) ELSE cur
             pushed == text \o FormatLine(content)
         IN  [res |-> "Ok", at |-> "none", disk |-> d1,
              session |-> [s EXCEPT !.document[id] = pushed,
                                    !.dirty = @ \cup {id}]]

\* The entry of a day is empty: no journal file and an empty value.
Fresh(d, s, day) ==
    d.files[day] = Absent /\ s.document[DocId(day)] = << >>

GraphAdd(content, fault, crash) ==
    /\ session.open
    /\ adds < MaxAdds
    /\ adds' = adds + 1
    /\ LET a == AddRun(disk, session, today, content, fault)
       IN  IF a.res # "Ok"
           THEN /\ FaultReached(a, fault, crash)
                /\ disk' = a.disk
                /\ session' = IF crash THEN NoSession ELSE a.session
                /\ committed' = committed
                /\ Record(Op("Add", Outcome(a, crash), content, a.at, {},
                             today, Fresh(disk, session, today)))
           ELSE \E W \in Written(a.session, fault) :
                  LET r == SaveRun(a.disk, a.session, fault, W)
                  IN  /\ FaultReached(r, fault, crash)
                      /\ disk' = r.disk
                      /\ session' = IF crash THEN NoSession ELSE r.session
                      /\ committed' = Committed(r, a.session)
                      /\ Record(Op("Add", Outcome(r, crash), content, r.at,
                                   a.session.dirty, today,
                                   Fresh(disk, session, today)))
    /\ UNCHANGED <<today, edits>>

\* ------------------------------------------------------------- environment
\* The process exits: the session, its store and its dirty set are gone.
Exit ==
    /\ session.open
    /\ session' = NoSession
    /\ Record(Plain("Exit", "Ok"))
    /\ UNCHANGED <<disk, today, budget, committed>>

\* Local::now() moves to the next calendar day.
Tick ==
    /\ today < MaxDay
    /\ today' = today + 1
    /\ Record(Plain("Tick", "Ok"))
    /\ UNCHANGED <<disk, session, budget, committed>>

External(kind, day, line, d) ==
    /\ edits < MaxEdits
    /\ edits' = edits + 1
    /\ disk' = d
    /\ Record(Op(kind, "Ok", line, "none", {}, day, FALSE))
    /\ UNCHANGED <<session, today, adds, faults, committed>>

\* An editor appends a line to a journal file.
ExternalAppendLine(day, line) ==
    /\ disk.files[day].kind = "text"
    /\ disk.files[day].text # << >>
    /\ External("ExternalAppendLine", day, line,
                [disk EXCEPT !.files[day] =
                    TextFile(disk.files[day].text \o <<NL>> \o line)])

\* An editor replaces (or creates) a journal file.
ExternalWrite(day, text) ==
    /\ disk.journal_dir
    /\ disk.files[day] # TextFile(text)
    /\ External("ExternalWrite", day, text,
                [disk EXCEPT !.files[day] = TextFile(text)])

\* A journal file is replaced by bytes that are not valid UTF-8.
ExternalWriteBinary(day) ==
    /\ disk.journal_dir
    /\ disk.files[day] # Binary
    /\ External("ExternalWriteBinary", day, << >>,
                [disk EXCEPT !.files[day] = Binary])

ExternalDeleteFile(day) ==
    /\ disk.files[day] # Absent
    /\ External("ExternalDeleteFile", day, << >>,
                [disk EXCEPT !.files[day] = Absent])

ExternalRemoveJournalDir ==
    /\ disk.journal_dir
    /\ External("ExternalRemoveJournalDir", today, << >>,
                [disk EXCEPT !.journal_dir = FALSE,
                             !.files = [d \in Days |-> Absent]])

ExternalDeleteMetadata ==
    /\ disk.meta_file # NoMeta
    /\ External("ExternalDeleteMetadata", today, << >>,
                [disk EXCEPT !.meta_file = NoMeta])

ExternalCorruptMetadata ==
    /\ disk.marker
    /\ disk.meta_file # CorruptMeta
    /\ External("ExternalCorruptMetadata", today, << >>,
                [disk EXCEPT !.meta_file = CorruptMeta])

ExternalDeleteSnapshot ==
    /\ disk.snap_file # NoSnapshot
    /\ External("ExternalDeleteSnapshot", today, << >>,
                [disk EXCEPT !.snap_file = NoSnapshot])

ExternalCorruptSnapshot ==
    /\ disk.marker
    /\ disk.snap_file # CorruptSnapshot
    /\ External("ExternalCorruptSnapshot", today, << >>,
                [disk EXCEPT !.snap_file = CorruptSnapshot])

\* The .flow directory is removed with the files it holds.
ExternalRemoveGraphDir ==
    /\ disk.marker
    /\ External("ExternalRemoveGraphDir", today, << >>,
                [disk EXCEPT !.marker = FALSE,
                             !.meta_file = NoMeta,
                             !.snap_file = NoSnapshot])

\* ------------------------------------------------------------------ Config
\* self.spaces.keys(), insert and remove of the HashMap<String, SpaceConfig>
Keys(spaces) == {n \in SpaceNames : spaces[n] # None}
\* An insert that keeps the entry of a name that is already there.
InsertKeepsFirst(spaces, name, path) ==
    IF spaces[name] # None THEN spaces ELSE [spaces EXCEPT ![name] = path]

\* self.spaces.insert(name, entry)
Insert(spaces, name, path) == [spaces EXCEPT ![name] = path]
Remove(spaces, name) == [spaces EXCEPT ![name] = None]

\* A choice of the last key in place of the first.
MinKeyLast(spaces) ==
    IF Keys(spaces) = {} THEN None
    ELSE CHOOSE n \in Keys(spaces) :
            \A m \in Keys(spaces) \ {n} : StrLess(m, n)

\* self.spaces.keys().min(): the least name in the order of str, if any
MinKey(spaces) ==
    IF Keys(spaces) = {} THEN None
    ELSE CHOOSE n \in Keys(spaces) :
            \A m \in Keys(spaces) \ {n} : StrLess(n, m)

\* self.spaces.iter().find(|(_, config)| config.path == path): the names
\* the search can stop at (HashMap iteration order is arbitrary)
FindByPath(spaces, path) == {n \in Keys(spaces) : spaces[n] = path}

\* The space a name_or_path argument stands for: the key equal to it, else
\* a space whose path equals it; empty when there is none.
ResolveName(c, arg) ==
    IF arg \in Keys(c.spaces) THEN {arg} ELSE FindByPath(c.spaces, arg)

\* Config::get_active_space
GetActiveSpace(c) ==
    IF c.active_space \in Keys(c.spaces) THEN c.spaces[c.active_space] ELSE None

\* Config::get_space_config: the path of the entry found, or None
GetSpaceConfig(c, arg) ==
    IF arg \in Keys(c.spaces) THEN c.spaces[arg]
    ELSE IF FindByPath(c.spaces, arg) # {} THEN arg
    ELSE None

\* A registration that leaves the active space as it was.
RegisterRunNoActive(c, name, path) ==
    [spaces |-> Insert(c.spaces, name, path), active_space |-> c.active_space]

\* Config::is_space_registered
IsSpaceRegistered(c, path) == \E n \in Keys(c.spaces) : c.spaces[n] = path

\* Config::register_space up to the save
RegisterRun(c, name, path) ==
    LET spaces == Insert(c.spaces, name, path)
    IN  [spaces |-> spaces,
         active_space |-> IF Cardinality(Keys(spaces)) = 1 THEN name
                          ELSE c.active_space]

\* Config::set_active_space up to the save, for the space found
SetActiveRun(c, name) == [c EXCEPT !.active_space = name]

\* Config::unregister_space up to the save, for the space found
UnregisterRun(c, name) ==
    LET spaces == Remove(c.spaces, name)
    IN  [spaces |-> spaces,
         active_space |-> IF c.active_space = name THEN MinKey(spaces)
                          ELSE c.active_space]

\* A failing lookup that stores the configuration before it returns.
NotFoundSaves(c, f) == [res |-> "NotFound", config |-> c, file |-> c, saved |-> TRUE]

\* miette::bail!("Space '{}' not found ...") and `with_context(..)?`: the
\* error is returned, nothing is assigned and save is not called.
NotFound(c, f) == [res |-> "NotFound", config |-> c, file |-> f, saved |-> FALSE]

\* self.save() at the end of an operation that has changed c: confy::store
\* writes flow.toml, or fails and leaves it.
Stored(c, f, fail) ==
    [res |-> IF fail THEN "IoError" ELSE "Ok", config |-> c,
     file |-> IF fail THEN f ELSE c, saved |-> TRUE]

\* The record of a registry operation: its name, result and argument, the
\* space it resolved the argument to, the path it loaded a graph from,
\* whether it called save, and whether the space was the active one.
COp(op, res, arg, name, path, saved, was_active) ==
    [op |-> op, res |-> res, arg |-> arg, name |-> name, path |-> path,
     saved |-> saved, was_active |-> was_active]

\* The commands whose run is modelled.
Commands == {"Init", "Clean"}

\* The step of execute has returned: it is noted with its result, and an
\* error ends execute (the `?` returns it).
Stepped(e, step, ok, next) ==
    [e EXCEPT !.steps = Append(@, <<step, ok>>),
              !.pc = IF ok THEN next ELSE "failed"]

\* An execute that goes on to the output whatever run returned.
AfterRunIgnoresError(e, o) ==
    IF e.pc = "run" /\ o.op = e.cmd
    THEN [e EXCEPT !.steps = Append(@, <<"run", o.res = "Ok">>),
                   !.pc = "output"]
    ELSE e

\* `let output = self.run()?;`: a command that runs while execute is at
\* its run step is that step.
AfterRun(e, o) ==
    IF e.pc = "run" /\ o.op = e.cmd
    THEN Stepped(e, "run", o.res = "Ok", "output") ELSE e

RecordConfig(o) ==
    /\ last' = o
    /\ UNCHANGED prev
    /\ exec' = AfterRun(exec, o)

\* The outcome r of a registry operation becomes the state.
ConfigStep(r, fail) ==
    /\ fail => (r.saved /\ faults < MaxFaults)
    /\ faults' = IF fail THEN faults + 1 ELSE faults
    /\ config' = r.config
    /\ config_file' = r.file
    /\ UNCHANGED <<disk, session, today, adds, edits, committed>>

\* Config::load(): the process reads flow.toml
ConfigLoad ==
    /\ config' = config_file
    /\ RecordConfig(COp("ConfigLoad", "Ok", None, None, None, FALSE, FALSE))
    /\ UNCHANGED <<disk, session, today, budget, committed, config_file, roots>>

\* Graph::exists and Graph::load at one of the paths
RootDisk(status) ==
    IF status = "graph"
    THEN [EmptyDisk EXCEPT !.marker = TRUE, !.journal_dir = TRUE,
                           !.meta_file = MetaToToml(Metadata(Basename, PkgVersion)),
                           !.snap_file = Export(EmptyDoc)]
    ELSE EmptyDisk

PathExists(r, path) == path \in SpacePaths /\ r[path] # "missing"

LoadAt(r, path) ==
    IF PathExists(r, path) THEN LoadRun(RootDisk(r[path])).res ELSE "NotFound"

\* InitCommand::run: Config::load, the Graph::exists guard, Graph::init at
\* the path and the registration of the new graph under its name.
CommandInit(name, path, fail) ==
    /\ IF PathExists(roots, path) /\ Exists(RootDisk(roots[path]))
       THEN /\ ConfigStep([res |-> "AlreadyExists", config |-> config_file,
                           file |-> config_file, saved |-> FALSE], fail)
            /\ roots' = roots
            /\ RecordConfig(COp("Init", "AlreadyExists", path, name, None,
                                FALSE, FALSE))
       ELSE LET r == Stored(RegisterRun(config_file, name, path),
                            config_file, fail)
            IN  /\ ConfigStep(r, fail)
                /\ roots' = [roots EXCEPT ![path] = "graph"]
                /\ RecordConfig(COp("Init", r.res, path, name, None, TRUE,
                                    config_file.active_space = name))

\* Config::set_active_space(name_or_path)
SetActiveSpace(arg, fail) ==
    /\ IF ResolveName(config, arg) = {}
       THEN LET r == NotFound(config, config_file)
            IN  /\ ConfigStep(r, fail)
                /\ RecordConfig(COp("SetActive", r.res, arg, None, None,
                                    r.saved, FALSE))
       ELSE \E n \in ResolveName(config, arg) :
              LET r == Stored(SetActiveRun(config, n), config_file, fail)
              IN  /\ ConfigStep(r, fail)
                  /\ RecordConfig(COp("SetActive", r.res, arg, n, None,
                                      r.saved, config.active_space = n))
    /\ UNCHANGED roots

\* Config::unregister_space(name_or_path)
UnregisterSpace(arg, fail) ==
    /\ IF ResolveName(config, arg) = {}
       THEN LET r == NotFound(config, config_file)
            IN  /\ ConfigStep(r, fail)
                /\ RecordConfig(COp("Unregister", r.res, arg, None, None,
                                    r.saved, FALSE))
       ELSE \E n \in ResolveName(config, arg) :
              LET r == Stored(UnregisterRun(config, n), config_file, fail)
              IN  /\ ConfigStep(r, fail)
                  /\ RecordConfig(COp("Unregister", r.res, arg, n, None,
                                      r.saved, config.active_space = n))
    /\ UNCHANGED roots

\* ------------------------------------------------------------ clean command
\* The registered names the loop of clean removes: the directory of the
\* space is not there, or it holds no .flow.
Orphans(c, r) ==
    {n \in Keys(c.spaces) :
        ~PathExists(r, c.spaces[n]) \/ ~Exists(RootDisk(r[c.spaces[n]]))}

\* The configurations unregister_space leaves when it is called for every
\* name of S, in any order (the loop follows the order of the HashMap).
RECURSIVE UnregisterAll(_, _)
UnregisterAll(c, S) ==
    IF S = {} THEN {c}
    ELSE UNION {UnregisterAll(UnregisterRun(c, n), S \ {n}) : n \in S}

\* A clean that unregisters also when it was asked for a dry run.
CleanRunAlways(c, r, dry_run) ==
    [removed |-> Orphans(c, r),
     configs |-> UnregisterAll(c, Orphans(c, r)),
     saved |-> Orphans(c, r) # {}]

\* CleanCommand::run on the configuration c read from flow.toml: the names
\* it reports as removed, the configurations it can end with, and whether
\* it has stored the configuration.
CleanRun(c, r, dry_run) ==
    [removed |-> Orphans(c, r),
     configs |-> IF dry_run THEN {c} ELSE UnregisterAll(c, Orphans(c, r)),
     saved |-> ~dry_run /\ Orphans(c, r) # {}]

\* The record of a clean: its result, the --dry-run flag and the names of
\* the removed list of its output (no output when it fails).
CleanOp(res, dry_run, removed, saved) ==
    [op |-> "Clean", res |-> res, arg |-> None, name |-> None, path |-> None,
     saved |-> saved, was_active |-> FALSE, dry_run |-> dry_run,
     removed |-> removed]

\* The clean command; with fail, the save of one unregister_space fails
\* after those of the names in D have succeeded, and run returns the error.
CommandClean(dry_run, fail) ==
    LET run == CleanRun(config_file, roots, dry_run)
    IN  /\ IF ~fail
           THEN \E c \in run.configs :
                  /\ ConfigStep([config |-> c,
                                 file |-> IF run.saved THEN c ELSE config_file,
                                 saved |-> run.saved], FALSE)
                  /\ RecordConfig(CleanOp("Ok", dry_run, run.removed, run.saved))
           ELSE /\ run.saved
                /\ \E n \in run.removed : \E D \in SUBSET (run.removed \ {n}) :
                     \E f \in UnregisterAll(config_file, D) :
                       /\ ConfigStep([config |-> UnregisterRun(f, n),
                                      file |-> f, saved |-> TRUE], TRUE)
                       /\ RecordConfig(CleanOp("IoError", dry_run, {}, TRUE))
        /\ UNCHANGED roots

\* --------------------------------------------------------- Command::execute
\* execute is called on a command: `if !is_json { self.interactive()?; }`
ExecuteStart(json, cmd) ==
    /\ exec.pc \in {"idle", "done", "failed"}
    /\ exec' = [pc |-> IF json THEN "run" ELSE "interactive", json |-> json,
                cmd |-> cmd, steps |-> << >>]
    /\ UNCHANGED <<disk, session, today, budget, committed, last, prev,
                   config, config_file, roots>>

\* self.interactive(): the default returns Ok, the prompts of InitCommand
\* can be cancelled.
ExecInteractive(ok) ==
    /\ exec.pc = "interactive"
    /\ ok \/ exec.cmd = "Init"
    /\ exec' = Stepped(exec, "interactive", ok, "run")
    /\ UNCHANGED <<disk, session, today, budget, committed, last, prev,
                   config, config_file, roots>>

\* self.run() of InitCommand and of CleanCommand
RunInit(name, path, fail) ==
    /\ exec.pc = "run" /\ exec.cmd = "Init"
    /\ CommandInit(name, path, fail)

RunClean(dry_run, fail) ==
    /\ exec.pc = "run" /\ exec.cmd = "Clean"
    /\ CommandClean(dry_run, fail)

\* global.print_json(&output)? in JSON mode, which can fail, and
\* Self::format_output(&output, &global) otherwise.
ExecOutput(ok) ==
    /\ exec.pc = "output"
    /\ ok \/ exec.json
    /\ exec' = Stepped(exec, IF exec.json THEN "print_json" ELSE "format_output",
                       ok, "done")
    /\ UNCHANGED <<disk, session, today, budget, committed, last, prev,
                   config, config_file, roots>>

\* A load that takes the active graph whenever there is one.
LoadGraphRunActiveFirst(c, r, flag) ==
    IF GetActiveSpace(c) # None
    THEN [res |-> IF LoadAt(r, GetActiveSpace(c)) = "Ok" THEN "Ok"
                  ELSE "LoadFailed",
          path |-> GetActiveSpace(c)]
    ELSE IF flag = None THEN [res |-> "NoActiveGraph", path |-> None]
    ELSE IF GetSpaceConfig(c, flag) # None
    THEN [res |-> IF LoadAt(r, GetSpaceConfig(c, flag)) = "Ok" THEN "Ok"
                  ELSE "LoadFailed",
          path |-> GetSpaceConfig(c, flag)]
    ELSE IF ~PathExists(r, flag) THEN [res |-> "GraphNotFound", path |-> None]
    ELSE [res |-> IF LoadAt(r, flag) = "Ok" THEN "Ok" ELSE "InvalidGraph",
          path |-> flag]

\* GlobalArgs::load_graph on the configuration c read from flow.toml: the
\* result, and the path Graph::load was called on.
LoadGraphRun(c, r, flag) ==
    IF flag # None
    THEN IF GetSpaceConfig(c, flag) # None
         THEN [res |-> IF LoadAt(r, GetSpaceConfig(c, flag)) = "Ok" THEN "Ok"
                       ELSE "LoadFailed",
               path |-> GetSpaceConfig(c, flag)]
         ELSE IF ~PathExists(r, flag)
         THEN [res |-> "GraphNotFound", path |-> None]
         ELSE [res |-> IF LoadAt(r, flag) = "Ok" THEN "Ok" ELSE "InvalidGraph",
               path |-> flag]
    ELSE IF GetActiveSpace(c) = None
    THEN [res |-> "NoActiveGraph", path |-> None]
    ELSE [res |-> IF LoadAt(r, GetActiveSpace(c)) = "Ok" THEN "Ok"
                  ELSE "LoadFailed",
          path |-> GetActiveSpace(c)]

LoadGraph(flag) ==
    LET g == LoadGraphRun(config_file, roots, flag)
    IN  /\ config' = config_file
        /\ RecordConfig(COp("LoadGraph", g.res, flag, None, g.path, FALSE,
                            FALSE))
        /\ UNCHANGED <<disk, session, today, budget, committed, config_file,
                       roots>>

\* A directory of a space is removed, or only its .flow directory.
ExternalRoot(kind, path, status) ==
    /\ edits < MaxEdits
    /\ edits' = edits + 1
    /\ roots[path] # status
    /\ roots' = [roots EXCEPT ![path] = status]
    /\ RecordConfig(COp(kind, "Ok", path, None, None, FALSE, FALSE))
    /\ UNCHANGED <<disk, session, today, adds, faults, committed, config,
                   config_file>>

ExternalRemoveRoot(path) ==
    /\ roots[path] # "missing"
    /\ ExternalRoot("ExternalRemoveRoot", path, "missing")

ExternalClearRoot(path) ==
    /\ roots[path] = "graph"
    /\ ExternalRoot("ExternalClearRoot", path, "dir")

\* The graph operations with I/O faults and crashes, the calendar and the
\* process exiting; nothing but the program touches the files.
Next ==
    \/ \E n \in NameArgs : GraphInit(n)
    \/ GraphLoad
    \/ \E c \in Contents, f \in Faults, crash \in BOOLEAN : GraphAdd(c, f, crash)
    \/ \E f \in Faults, crash \in BOOLEAN : Save(f, crash)
    \/ Exit
    \/ Tick

Spec == Init /\ [][Next]_vars

\* The graph operations without faults, with an editor changing the files
\* between them: the journal file of the current day, the metadata file and
\* the snapshot file.
NextEdit ==
    \/ GraphInit("None")
    \/ GraphLoad
    \/ \E c \in Contents : GraphAdd(c, "none", FALSE)
    \/ Save("none", FALSE)
    \/ Exit
    \/ Tick
    \/ \E l \in ExternalLines : ExternalAppendLine(today, l)
    \/ \E t \in ExternalTexts : ExternalWrite(today, t)
    \/ ExternalWriteBinary(today)
    \/ ExternalDeleteFile(today)
    \/ ExternalRemoveJournalDir
    \/ ExternalDeleteMetadata
    \/ ExternalCorruptMetadata
    \/ ExternalDeleteSnapshot
    \/ ExternalCorruptSnapshot

SpecEdit == Init /\ [][NextEdit]_vars

\* Graph::exists asked between the graph operations, with the files under
\* .flow (and .flow itself) changed or removed from outside.
NextExists ==
    \/ \E n \in NameArgs : GraphInit(n)
    \/ GraphLoad
    \/ GraphExists
    \/ \E c \in Contents : GraphAdd(c, "none", FALSE)
    \/ Exit
    \/ ExternalRemoveGraphDir
    \/ ExternalDeleteMetadata
    \/ ExternalCorruptMetadata
    \/ ExternalDeleteSnapshot
    \/ ExternalCorruptSnapshot

SpecExists == Init /\ [][NextExists]_vars

\* The graph operations with I/O faults and crashes while the journal
\* directory can be removed from outside; one content argument.
DirContents == {<<"a">>}

NextDir ==
    \/ GraphInit("None")
    \/ GraphLoad
    \/ \E c \in DirContents, f \in Faults, crash \in BOOLEAN : GraphAdd(c, f, crash)
    \/ \E f \in Faults, crash \in BOOLEAN : Save(f, crash)
    \/ Exit
    \/ Tick
    \/ ExternalRemoveJournalDir

SpecDir == Init /\ [][NextDir]_vars

\* The graph operations on one day with failing and crashing saves, and an
\* editor that writes the journal file of the day.
LostFaults == {"none", "snap", "file"}

NextLost ==
    \/ GraphInit("None")
    \/ GraphLoad
    \/ \E c \in Contents, f \in LostFaults, crash \in BOOLEAN : GraphAdd(c, f, crash)
    \/ Exit
    \/ \E t \in ExternalTexts : ExternalWrite(today, t)

SpecLost == Init /\ [][NextLost]_vars

\* The registry operations of a process, the command line's init and
\* load_graph, and the directories of the spaces removed from outside.
NextConfig ==
    \/ ConfigLoad
    \/ \E n \in SpaceNames, p \in SpacePaths, fail \in BOOLEAN :
          CommandInit(n, p, fail)
    \/ \E a \in NameOrPaths, fail \in BOOLEAN : SetActiveSpace(a, fail)
    \/ \E a \in NameOrPaths, fail \in BOOLEAN : UnregisterSpace(a, fail)
    \/ \E flag \in NameOrPaths \cup {None} : LoadGraph(flag)
    \/ \E dry_run \in BOOLEAN, fail \in BOOLEAN : CommandClean(dry_run, fail)
    \/ \E p \in SpacePaths : ExternalRemoveRoot(p)
    \/ \E p \in SpacePaths : ExternalClearRoot(p)

SpecConfig == Init /\ [][NextConfig]_vars

\* Commands executed one after the other through Command::execute, with
\* the directories of the spaces removed from outside.
NextExecute ==
    \/ \E json \in BOOLEAN, cmd \in Commands : ExecuteStart(json, cmd)
    \/ \E ok \in BOOLEAN : ExecInteractive(ok)
    \/ \E n \in SpaceNames, p \in SpacePaths, fail \in BOOLEAN :
          RunInit(n, p, fail)
    \/ \E dry_run \in BOOLEAN, fail \in BOOLEAN : RunClean(dry_run, fail)
    \/ \E ok \in BOOLEAN : ExecOutput(ok)
    \/ \E p \in SpacePaths : ExternalRemoveRoot(p)
    \/ \E p \in SpacePaths : ExternalClearRoot(p)

SpecExecute == Init /\ [][NextExecute]_vars

\* ------------------------------------------------------------- properties
Saved(o) == o.op \in {"Save", "Add"}
SavedOk(o) == Saved(o) /\ o.res = "Ok"
SaveFailed(o) ==
    Saved(o) /\ o.res = "IoError" /\ o.fault \in {"meta", "snap", "file", "nodir"}

\* The content of the journal file of a document id.
FileOf(d, id) == d.files[DayOf(id)]

\* The lines of a text: the pieces between its newlines.
RECURSIVE SplitLines(_)
SplitLines(t) ==
    IF \A i \in 1..Len(t) : t[i] # NL THEN <<t>>
    ELSE LET k == CHOOSE i \in 1..Len(t) :
                      t[i] = NL /\ \A j \in 1..(i - 1) : t[j] # NL
         IN  <<SubSeq(t, 1, k - 1)>> \o SplitLines(SubSeq(t, k + 1, Len(t)))

IsPrefix(a, b) == Len(a) <= Len(b) /\ SubSeq(b, 1, Len(a)) = a
Range(f) == {f[i] : i \in DOMAIN f}
Bullet(content) == <<"-", " ">> \o content

\* C1: after every successful save (also the one that ends Add) the file of
\* every id that was dirty holds exactly the rendering of its text.
C1_SavedFileEqualsRender ==
    SavedOk(last) =>
        \A id \in last.dirty : FileOf(disk, id) = TextFile(session.document[id])

C1_Witness ==
    /\ last.op = "Save" /\ last.res = "Ok"
    /\ Cardinality(last.dirty) = 2
    /\ \A id \in last.dirty : session.document[id] # << >>

\* C2: Add(c) on an empty entry (no journal file for the day, empty value)
\* leaves a journal file holding exactly "- c", without a leading newline.
C2_FirstAddNoLeadingNewline ==
    (last.op = "Add" /\ last.res = "Ok" /\ last.fresh) =>
        disk.files[today] = TextFile(Bullet(last.content))

\* C3: Add(c1) on an empty entry followed by Add(c2) on the same day leaves
\* a journal file holding exactly "- c1\n- c2".
C3_TwoAddsExactContent ==
    (/\ prev.op = "Add" /\ prev.res = "Ok" /\ prev.fresh
     /\ last.op = "Add" /\ last.res = "Ok") =>
        disk.files[today] =
            TextFile(Bullet(prev.content) \o <<NL>> \o Bullet(last.content))

\* C4: when an editor has appended a line L to the day's journal file, a
\* following successful Add(x) leaves a file that holds L, holds the line
\* "- x", and still holds every line the file had, in the same order.
C4_ExternalLineKept ==
    [][(/\ last.op = "ExternalAppendLine" /\ last.day = today
        /\ last'.op = "Add" /\ last'.res = "Ok") =>
          LET before == SplitLines(disk.files[today].text)
              after == SplitLines(disk'.files[today].text)
          IN  /\ disk'.files[today].kind = "text"
              /\ last.content \in Range(after)
              /\ Bullet(last'.content) \in Range(after)
              /\ IsPrefix(before, after)]_vars

C4_Witness ==
    /\ prev.op = "ExternalAppendLine" /\ prev.day = today
    /\ last.op = "Add" /\ last.res = "Ok"
    /\ disk.files[today].kind = "text"
    /\ \E c \in Contents :
         SplitLines(disk.files[today].text) =
            << << >>, Bullet(c), prev.content, Bullet(last.content) >>

\* C5: a successful save followed by Load gives a session that renders every
\* id that was dirty before the save as it was rendered before the save.
C5_SaveLoadRoundTrip ==
    [][(SavedOk(last) /\ last'.op = "Load") =>
          /\ last'.res = "Ok"
          /\ \A id \in last.dirty :
               session'.document[id] = session.document[id]]_vars

C5_Witness ==
    /\ SavedOk(prev) /\ prev.dirty # {}
    /\ last.op = "Load" /\ last.res = "Ok"
    /\ \A id \in prev.dirty : session.document[id] # << >>

\* C6: Init on a path that holds the .flow marker fails with AlreadyExists
\* and leaves the metadata, snapshot and journal files as they were.
C6_InitOnExistingFails ==
    [][(disk.marker /\ last'.op = "Init") =>
          (last'.res = "AlreadyExists" /\ disk' = disk)]_vars

\* C7: save clears the dirty set only after the metadata, the snapshot and
\* every dirty file are written; a save that fails leaves every id dirty,
\* and the next successful save writes their files with the current
\* rendering, the files the first save would have written.
C7_DirtyKeptUntilWritten ==
    /\ (SaveFailed(last) /\ session.open) => session.dirty = last.dirty
    /\ (Saved(last) /\ last.dirty # {} /\ session.open /\ session.dirty = {}) =>
          /\ last.res = "Ok"
          /\ disk.meta_file = MetaToToml(session.metadata)
          /\ disk.snap_file = Export(session.document)
          /\ \A id \in last.dirty :
               FileOf(disk, id) = TextFile(session.document[id])
    /\ (SaveFailed(prev) /\ SavedOk(last)) =>
          /\ prev.dirty \subseteq last.dirty
          /\ disk.meta_file = MetaToToml(session.metadata)
          /\ disk.snap_file = Export(session.document)
          /\ \A id \in prev.dirty :
               FileOf(disk, id) = TextFile(session.document[id])

C7_Witness ==
    /\ prev.op = "Add" /\ prev.res = "IoError" /\ prev.fault = "file"
    /\ Cardinality(prev.dirty) = 2
    /\ last.op = "Save" /\ last.res = "Ok"
    /\ session.dirty = {}

\* The process stopped in Add after the append, before save wrote anything.
CrashedBeforeSave(o) == o.op = "Add" /\ o.res = "Crash" /\ o.fault = "meta"

\* C8: when the process stops after Add has appended in memory and before
\* save has written anything, the snapshot on disk is the one of the last
\* completed save, and a following Load yields exactly that store.
C8_CrashLosesOnlyTheAppend ==
    /\ CrashedBeforeSave(last) => disk.snap_file = Export(committed)
    /\ (CrashedBeforeSave(prev) /\ last.op = "Load") =>
          /\ last.res = "Ok"
          /\ session.document = committed
          /\ disk.snap_file = Export(committed)

C8_Witness ==
    /\ CrashedBeforeSave(prev)
    /\ last.op = "Load" /\ last.res = "Ok"
    /\ session.document[DocId(today)] # << >>
    /\ disk.files[today] = TextFile(session.document[DocId(today)])

\* C9: a save that follows a successful save, with nothing done in between,
\* leaves the metadata file, the snapshot file and every journal file as
\* the first save left them.
C9_SaveIdempotent ==
    [][(SavedOk(last) /\ last'.op = "Save" /\ last'.res = "Ok") =>
          disk' = disk]_vars

C9_Witness ==
    /\ SavedOk(prev) /\ prev.dirty # {}
    /\ last.op = "Save" /\ last.res = "Ok"
    /\ disk.snap_file.data # {}

LoadBlocked(d) ==
    d.snap_file.kind = "corrupt" \/ d.meta_file.kind \in {"absent", "corrupt"}

\* C10: Load of a graph whose snapshot cannot be imported, or whose metadata
\* is missing or does not parse, returns an error, returns no session and
\* changes no file.
C10_LoadFailsOnCorruptState ==
    [][last'.op = "Load" =>
          /\ disk' = disk
          /\ LoadBlocked(disk) =>
                /\ last'.res \in {"NotFound", "CorruptMetadata", "CorruptSnapshot"}
                /\ session' = session]_vars

C10_Witness ==
    /\ prev.op = "ExternalCorruptSnapshot"
    /\ last.op = "Load" /\ last.res = "CorruptSnapshot"
    /\ committed # EmptyDoc

\* The metadata file is readable and there is no snapshot file.
HasMetaNoSnapshot(d) ==
    d.meta_file.kind = "valid" /\ d.snap_file.kind = "absent"

\* C11: Load on a path with a readable metadata file and no snapshot file
\* succeeds; every document id of the session renders as the empty string
\* and the dirty set is empty.
C11_LoadWithoutSnapshot ==
    [][(HasMetaNoSnapshot(disk) /\ last'.op = "Load") =>
          /\ last'.res = "Ok"
          /\ session'.open
          /\ \A id \in Ids : session'.document[id] = << >>
          /\ session'.dirty = {}]_vars

C11_Witness ==
    /\ prev.op = "ExternalDeleteSnapshot"
    /\ last.op = "Load" /\ last.res = "Ok"
    /\ committed # EmptyDoc
    /\ session.document = EmptyDoc /\ session.dirty = {}

\* C12: Exists evaluated right after a successful Init returns true.
C12_ExistsAfterInit ==
    [][(last.op = "Init" /\ last.res = "Ok" /\ last'.op = "Exists") =>
          last'.res = "true"]_vars

C12_Witness ==
    /\ prev.op = "Init" /\ prev.res = "Ok"
    /\ last.op = "Exists" /\ last.res = "true"
    /\ edits = 1

\* C13: Exists returns true exactly when the .flow marker is present,
\* whatever the metadata and snapshot files hold, and evaluating it changes
\* no file and no session.
C13_ExistsIsMarkerOnly ==
    [][last'.op = "Exists" =>
          /\ last'.res = "true" <=> disk.marker
          /\ last'.res \in {"true", "false"}
          /\ disk' = disk
          /\ session' = session]_vars

\* Exists answers true for a graph on which Load has just failed.
C13_Witness ==
    /\ prev.op = "Load" /\ prev.res # "Ok"
    /\ last.op = "Exists" /\ last.res = "true"
    /\ LoadBlocked(disk)

\* C14: when the journal file of the day exists and is not valid UTF-8, Add
\* fails with InvalidEncoding before it appends: the value of the day's id,
\* the dirty set, the snapshot file and the journal file stay as they were.
C14_AddFailsOnInvalidEncoding ==
    [][(disk.files[today].kind = "binary" /\ last'.op = "Add") =>
          /\ last'.res = "InvalidEncoding"
          /\ session'.document[DocId(today)] = session.document[DocId(today)]
          /\ session'.dirty = session.dirty
          /\ disk'.snap_file = disk.snap_file
          /\ disk'.files[today] = disk.files[today]]_vars

C14_Witness ==
    /\ prev.op = "ExternalWriteBinary" /\ prev.day = today
    /\ last.op = "Add" /\ last.res = "InvalidEncoding"
    /\ session.document[DocId(today)] # << >>
    /\ disk.files[today] = Binary

\* Two successful Adds in a row on one day end in one file, the file of
\* the id journal/<day>.md, which holds the lines of both.
SameDaySameId ==
    (/\ last.op = "Add" /\ last.res = "Ok"
     /\ last'.op = "Add" /\ last'.res = "Ok" /\ last'.day = last.day) =>
        /\ DocId(last.day) \in last'.dirty
        /\ disk'.files[last.day].kind = "text"
        /\ {Bullet(last.content), Bullet(last'.content)}
              \subseteq Range(SplitLines(disk'.files[last.day].text))

\* C15 as stated: Add on day D writes only the journal file of day D; the
\* journal files of all other days and the values of all other document
\* ids are unchanged by it, and two Adds on one day resolve to one id.
C15_AddTouchesOnlyToday ==
    [][last'.op = "Add" =>
          /\ \A d \in Days \ {today} : disk'.files[d] = disk.files[d]
          /\ session'.open =>
                \A id \in Ids \ {DocId(today)} :
                    session'.document[id] = session.document[id]
          /\ SameDaySameId]_vars

\* C15 amended: the journal files of the other days are unchanged except
\* those of ids that were dirty when Add began (left by a save that
\* failed), which the save ending Add writes; the values of all other ids
\* are unchanged, and two Adds on one day resolve to one id.
C15_AddTouchesTodayAndDirty ==
    [][last'.op = "Add" =>
          /\ \A d \in Days \ {today} :
                DocId(d) \notin session.dirty => disk'.files[d] = disk.files[d]
          /\ session'.open =>
                \A id \in Ids \ {DocId(today)} :
                    session'.document[id] = session.document[id]
          /\ SameDaySameId]_vars

C15_Witness ==
    /\ last.op = "Add" /\ last.res = "Ok"
    /\ today = 2 /\ last.dirty = {DocId(2)}
    /\ disk.files[1].kind = "text" /\ disk.files[1].text # << >>
    /\ disk.files[2].kind = "text"
    /\ session.document[DocId(1)] = disk.files[1].text

\* The files a step wrote hold what the snapshot on disk holds for their id.
WrittenFilesInSnapshot ==
    \A d \in Days :
        disk'.files[d] # disk.files[d] =>
            disk'.files[d] = TextFile(Import(disk'.snap_file)[DocId(d)])

C17_MetadataNeverChanges ==
    [][Saved(last') =>
          /\ disk'.meta_file = disk.meta_file
          /\ disk'.meta_file = MetaToToml(session.metadata)
          /\ session'.open => session'.metadata = session.metadata]_vars

\* A graph named at Init, loaded again in a later session, after its
\* second Add.
C17_Witness ==
    /\ prev.op = "Load" /\ prev.res = "Ok"
    /\ last.op = "Add" /\ last.res = "Ok" /\ adds = 2
    /\ session.metadata = Metadata("work", PkgVersion)
    /\ disk.meta_file = MetaToToml(Metadata("work", PkgVersion))

\* n is the first of the names in S in the order of str.
IsFirst(n, S) == n \in S /\ \A m \in S \ {n} : StrLess(n, m)

\* C18: unregister_space removes the space; when it was the active one the
\* first of the remaining names becomes active, None when none remains;
\* when it was not the active one the active space stays as it was.
C18_UnregisterPicksFirst ==
    [][(last'.op = "Unregister" /\ last'.res # "NotFound") =>
          LET n == last'.name
              rest == Keys(config.spaces) \ {n}
          IN  /\ n \in Keys(config.spaces)
              /\ Keys(config'.spaces) = rest
              /\ \A m \in rest : config'.spaces[m] = config.spaces[m]
              /\ (config.active_space = n /\ rest # {}) =>
                    IsFirst(config'.active_space, rest)
              /\ (config.active_space = n /\ rest = {}) =>
                    config'.active_space = None
              /\ config.active_space # n =>
                    config'.active_space = config.active_space]_vars

\* The active space "a" was removed while "/p" and "b" were registered.
C18_Witness ==
    /\ last.op = "Unregister" /\ last.res = "Ok"
    /\ last.name = "a" /\ last.was_active
    /\ Keys(config.spaces) = {"/p", "b"}
    /\ config.active_space = "/p"
    /\ config_file = config

\* The argument is neither a registered name nor a registered path.
Unknown(c, arg) ==
    arg \notin Keys(c.spaces) /\ \A n \in Keys(c.spaces) : c.spaces[n] # arg

\* C19: set_active_space and unregister_space with an argument that is
\* neither a registered name nor the path of a registered space return an
\* error, leave the registry and the active space as they were and do not
\* store the configuration; an argument that is a registered name stands
\* for the space of that name, also when it is the path of another space.
C19_UnknownSpaceIsAnError ==
    [][last'.op \in {"SetActive", "Unregister"} =>
          /\ Unknown(config, last'.arg) =>
                /\ last'.res = "NotFound"
                /\ config' = config
                /\ config_file' = config_file
                /\ ~last'.saved
          /\ ~Unknown(config, last'.arg) => last'.res # "NotFound"
          /\ last'.arg \in Keys(config.spaces) =>
                /\ last'.name = last'.arg
                /\ last'.op = "SetActive" =>
                      config'.active_space = last'.arg
                /\ last'.op = "Unregister" =>
                      Keys(config'.spaces) = Keys(config.spaces) \ {last'.arg}]_vars

\* The failing call happens while the process holds a change that an
\* earlier failing save has not stored.
C19_Witness ==
    /\ last.op \in {"SetActive", "Unregister"} /\ last.res = "NotFound"
    /\ ~last.saved
    /\ Keys(config.spaces) # {}
    /\ config_file # config

\* C20: load_graph with the --graph flag loads the graph the flag stands
\* for (the space of that name, else the space at that path, else the
\* directory at that path) whatever the active graph is, and fails with
\* GraphNotFound when the flag is neither registered nor an existing path;
\* without the flag it loads the active graph and fails with NoActiveGraph
\* when there is none.
C20_LoadGraphTarget ==
    [][last'.op = "LoadGraph" =>
          LET c == config_file
              flag == last'.arg
              loaded == last'.res \in {"Ok", "LoadFailed", "InvalidGraph"}
          IN  /\ (flag # None /\ flag \in Keys(c.spaces)) =>
                    loaded /\ last'.path = c.spaces[flag]
              /\ (flag # None /\ flag \notin Keys(c.spaces) /\ ~Unknown(c, flag)) =>
                    loaded /\ last'.path = flag
              /\ (flag # None /\ Unknown(c, flag) /\ PathExists(roots, flag)) =>
                    loaded /\ last'.path = flag
              /\ (flag # None /\ Unknown(c, flag) /\ ~PathExists(roots, flag)) =>
                    last'.res = "GraphNotFound"
              /\ (flag = None /\ c.active_space # None) =>
                    loaded /\ last'.path = c.spaces[c.active_space]
              /\ (flag = None /\ c.active_space = None) =>
                    last'.res = "NoActiveGraph"
              /\ last'.res = "Ok" <=> (loaded /\ roots[last'.path] = "graph")]_vars

\* The flag names a graph other than the active one, and it is loaded.
C20_Witness ==
    /\ last.op = "LoadGraph" /\ last.res = "Ok"
    /\ last.arg \in Keys(config_file.spaces)
    /\ config_file.active_space \in Keys(config_file.spaces)
    /\ config_file.active_space # last.arg
    /\ last.path = config_file.spaces[last.arg]
    /\ last.path # config_file.spaces[config_file.active_space]

\* C21: clean with --dry-run changes neither the stored configuration nor
\* the registry and active space the command read from it, and stores
\* nothing, while its removed list names the spaces a real run removes:
\* those whose directory is missing or holds no .flow.
C21_DryRunChangesNothing ==
    [][last'.op = "Clean" =>
          LET orphaned == {n \in Keys(config_file.spaces) :
                              roots[config_file.spaces[n]] # "graph"}
          IN  /\ last'.dry_run =>
                    /\ last'.res = "Ok"
                    /\ config_file' = config_file
                    /\ config' = config_file
                    /\ ~last'.saved
                    /\ last'.removed = orphaned
              /\ (~last'.dry_run /\ last'.res = "Ok") =>
                    /\ last'.removed = orphaned
                    /\ Keys(config'.spaces) = Keys(config_file.spaces) \ orphaned
                    /\ config_file' = config']_vars

\* A dry run that reports the active space while another space is
\* registered: a real run would remove it and change the active space.
C21_Witness ==
    /\ last.op = "Clean" /\ last.dry_run /\ last.res = "Ok"
    /\ last.removed # {}
    /\ config_file.active_space \in last.removed
    /\ last.removed \subseteq Keys(config_file.spaces)
    /\ Cardinality(Keys(config_file.spaces)) >= 2
    /\ config = config_file

\* The steps of a complete execute, in their order.
FullSteps(json) ==
    IF json THEN <<"run", "print_json">>
    ELSE <<"interactive", "run", "format_output">>

\* The steps e has run are the first steps of a complete execute, each
\* run after the success of the one before, and e is done or has failed
\* according to them.
InOrder(e) ==
    LET names == [i \in 1..Len(e.steps) |-> e.steps[i][1]]
        n == Len(e.steps)
    IN  /\ IsPrefix(names, FullSteps(e.json))
        /\ \A i \in 1..(n - 1) : e.steps[i][2]
        /\ e.pc = "done" <=> (names = FullSteps(e.json) /\ e.steps[n][2])
        /\ e.pc = "failed" <=> (n > 0 /\ ~e.steps[n][2])
        /\ e.pc = "output" => (names[n] = "run" /\ e.steps[n][2])

\* C22: execute runs interactive (not in JSON mode), then run, then one
\* output step (print_json in JSON mode, format_output otherwise); a step
\* is run only when every step before it has succeeded, so after a failing
\* interactive or run nothing else is run and no output is produced; the
\* run step has succeeded exactly when the command has returned Ok.
C22_ExecuteOrder ==
    [][/\ InOrder(exec')
       /\ (exec.pc = "run" /\ exec'.pc # "run") =>
             /\ exec'.steps = Append(exec.steps, <<"run", last'.res = "Ok">>)
             /\ last'.op = exec.cmd
       /\ exec.pc \in {"done", "failed"} =>
             (exec' = exec \/ exec'.steps = << >>)]_vars

\* A run that fails after a successful interactive step: nothing follows.
C22_Witness ==
    /\ exec.pc = "failed" /\ ~exec.json
    /\ exec.steps = <<<<"interactive", TRUE>>, <<"run", FALSE>>>>
    /\ last.op = "Init" /\ last.res = "AlreadyExists"

\* C23: when the journal file of the day holds the text F, a successful
\* Add(c) leaves the file, and the value of the day's id, holding exactly F
\* followed by the formatted line of c, whatever the value held before.
C23_AddFollowsFile ==
    [][(/\ disk.files[today].kind = "text"
        /\ last'.op = "Add" /\ last'.res = "Ok") =>
          LET F == disk.files[today].text
          IN  /\ disk'.files[today] = TextFile(F \o FormatLine(last'.content))
              /\ session'.document[DocId(today)] = F \o FormatLine(last'.content)]_vars

\* The file was replaced from outside after an entry was stored: the
\* entry is gone from the value and the file after the next Add.
C23_Witness ==
    /\ prev.op = "ExternalWrite" /\ prev.day = today
    /\ last.op = "Add" /\ last.res = "Ok" /\ adds = 2
    /\ disk.files[today] = TextFile(prev.content \o FormatLine(last.content))
    /\ session.document[DocId(today)] = disk.files[today].text
    /\ \A c \in Contents \ {last.content} :
          Bullet(c) \notin Range(SplitLines(disk.files[today].text))

\* C24: when the journal file of the day does not exist and the value R of
\* the day's id is not empty, a successful Add(c) writes a file holding R
\* followed by the formatted line of c: the deleted text is back.
C24_AddRestoresDeleted ==
    [][(/\ disk.files[today].kind = "absent"
        /\ session.open
        /\ session.document[DocId(today)] # << >>
        /\ last'.op = "Add" /\ last'.res = "Ok") =>
          LET R == session.document[DocId(today)]
          IN  /\ disk'.files[today] = TextFile(R \o FormatLine(last'.content))
              /\ session'.document[DocId(today)] = R \o FormatLine(last'.content)]_vars

\* The file of an entry was deleted and the next Add wrote both the old
\* and the new line.
C24_Witness ==
    /\ prev.op = "ExternalDeleteFile" /\ prev.day = today
    /\ last.op = "Add" /\ last.res = "Ok" /\ adds = 2
    /\ \E c \in Contents :
          disk.files[today] = TextFile(FormatLine(c) \o FormatLine(last.content))

\* The text ends with the given line.
EndsWith(text, line) ==
    /\ Len(text) >= Len(line)
    /\ SubSeq(text, Len(text) - Len(line) + 1, Len(text)) = line

\* C25: after a successful Init, Load or Add the dirty set is empty; the
\* dirty set becomes non-empty only in an Add whose save fails; and when
\* Add returns Ok the snapshot on disk and the file of the day both end
\* with the appended line.
C25_CleanAfterSuccess ==
    [][/\ (last'.op \in {"Init", "Load", "Add"} /\ last'.res = "Ok") =>
              session'.open /\ session'.dirty = {}
       /\ (session.dirty = {} /\ session'.dirty # {}) =>
              /\ last'.op = "Add" /\ last'.res = "IoError"
              /\ last'.fault \in {"meta", "snap", "file"}
              /\ session'.dirty = {DocId(today)}
       /\ (last'.op = "Add" /\ last'.res = "Ok") =>
              /\ disk'.files[today].kind = "text"
              /\ EndsWith(disk'.files[today].text, FormatLine(last'.content))
              /\ disk'.snap_file.kind = "valid"
              /\ EndsWith(Import(disk'.snap_file)[DocId(today)],
                          FormatLine(last'.content))]_vars

\* An Add whose save failed left its id dirty, and the next Add succeeded:
\* nothing is dirty and its line is in the file and the snapshot.
C25_Witness ==
    /\ prev.op = "Add" /\ prev.res = "IoError" /\ prev.fault = "file"
    /\ prev.day = today
    /\ last.op = "Add" /\ last.res = "Ok" /\ last.dirty # {}
    /\ session.open /\ session.dirty = {}
    /\ EndsWith(disk.files[today].text, FormatLine(last.content))
    /\ EndsWith(Import(disk.snap_file)[DocId(today)], FormatLine(last.content))

\* The non-empty lines of the journal file of a day, none without a file.
EntryLines(d, day) ==
    IF d.files[day].kind = "text"
    THEN SelectSeq(SplitLines(d.files[day].text), LAMBDA l : l # << >>)
    ELSE << >>

RECURSIVE TotalLines(_, _)
TotalLines(d, S) ==
    IF S = {} THEN 0
    ELSE LET day == CHOOSE x \in S : TRUE
         IN  Len(EntryLines(d, day)) + TotalLines(d, S \ {day})

\* C26: while no file is changed from outside and no write fails, every Add
\* succeeds and puts the line of its content after the lines the file of
\* the day held, in the same session or in a fresh one obtained by Load;
\* no other step changes a journal file, so after n Adds the files hold n
\* lines, those of a day in call order.
C26_AddsInCallOrder ==
    [][(faults' = 0 /\ edits' = 0) =>
          /\ last'.op = "Add" =>
               /\ last'.res = "Ok"
               /\ EntryLines(disk', today) =
                     Append(EntryLines(disk, today), Bullet(last'.content))
               /\ \A d \in Days \ {today} : disk'.files[d] = disk.files[d]
          /\ last'.op # "Add" => disk'.files = disk.files
          /\ TotalLines(disk', Days) = adds'
          /\ \A d \in Days : disk'.files[d].kind \in {"absent", "text"}]_vars

\* Two Adds of different contents on one day, the second in a session
\* obtained by Load: the file holds the two lines in call order.
C26_Witness ==
    /\ faults = 0 /\ edits = 0 /\ adds = 2
    /\ prev.op = "Load" /\ prev.res = "Ok"
    /\ last.op = "Add" /\ last.res = "Ok"
    /\ \E c \in Contents \ {last.content} :
          EntryLines(disk, today) = <<Bullet(c), Bullet(last.content)>>

\* C27: when the save of an Add wrote the snapshot and failed or stopped
\* before it wrote the file of the day, the next Load and successful Add on
\* that day leave the value and the file holding the line appended before
\* the failure as well as the new line.
C27_FailedAddNotLost ==
    [][(/\ prev.op = "Add" /\ prev.res \in {"IoError", "Crash"}
        /\ prev.fault = "file" /\ prev.day = today
        /\ last.op = "Load" /\ last.res = "Ok"
        /\ EndsWith(session.document[DocId(today)], FormatLine(prev.content))
        /\ disk.files[today] # TextFile(session.document[DocId(today)])
        /\ last'.op = "Add" /\ last'.res = "Ok") =>
          LET value == SplitLines(session'.document[DocId(today)])
          IN  /\ Bullet(prev.content) \in Range(value)
              /\ Bullet(last'.content) \in Range(value)
              /\ disk'.files[today] = TextFile(session'.document[DocId(today)])]_vars

\* The active space is None when nothing is registered, and a registered
\* name otherwise.
ActiveIsRegistered(c) ==
    IF Keys(c.spaces) = {} THEN c.active_space = None
    ELSE c.active_space \in Keys(c.spaces)

\* C28: from the default configuration, after every register_space,
\* set_active_space and unregister_space the active space is None exactly
\* when no space is registered and names a registered space otherwise, in
\* the registry in memory and in the stored one; the first space
\* registered becomes the active one.
C28_ActiveIsRegistered ==
    [][/\ ActiveIsRegistered(config')
       /\ ActiveIsRegistered(config_file')
       /\ (last'.op = "Init" /\ last'.saved /\ Keys(config_file.spaces) = {}) =>
              /\ Keys(config'.spaces) = {last'.name}
              /\ config'.active_space = last'.name]_vars

\* The active one of two registered spaces was unregistered: the other is
\* the active space now.
C28_Witness ==
    /\ last.op = "Unregister" /\ last.res = "Ok" /\ last.was_active
    /\ Cardinality(Keys(config.spaces)) = 1
    /\ config.active_space \in Keys(config.spaces)
    /\ config.active_space # last.name
    /\ config_file = config

\* C29: registering a name that is already registered replaces the path of
\* its entry: the count of spaces does not grow, and the earlier path is
\* no longer found by is_space_registered or get_space_config.
C29_ReplacedPathNotFound ==
    [][(/\ last'.op = "Init" /\ last'.saved
        /\ last'.name \in Keys(config_file.spaces)
        /\ config_file.spaces[last'.name] # last'.arg) =>
          LET old == config_file.spaces[last'.name]
          IN  /\ config'.spaces[last'.name] = last'.arg
              /\ Cardinality(Keys(config'.spaces)) =
                    Cardinality(Keys(config_file.spaces))
              /\ ~IsSpaceRegistered(config', old)
              /\ GetSpaceConfig(config', old) = None]_vars

\* C29 with what the lookups find: after the replacement the earlier path
\* is found by is_space_registered exactly when another space has that
\* path, and by get_space_config exactly when another space has that path
\* or a space is named by it.
C29_ReplacedPathFoundElsewhere ==
    [][(/\ last'.op = "Init" /\ last'.saved
        /\ last'.name \in Keys(config_file.spaces)
        /\ config_file.spaces[last'.name] # last'.arg) =>
          LET old == config_file.spaces[last'.name]
              others == {m \in Keys(config_file.spaces) \ {last'.name} :
                            config_file.spaces[m] = old}
          IN  /\ config'.spaces[last'.name] = last'.arg
              /\ Keys(config'.spaces) = Keys(config_file.spaces)
              /\ \A m \in Keys(config'.spaces) \ {last'.name} :
                    config'.spaces[m] = config_file.spaces[m]
              /\ IsSpaceRegistered(config', old) <=> others # {}
              /\ GetSpaceConfig(config', old) # None <=>
                    (others # {} \/ old \in Keys(config'.spaces))]_vars

\* The only registered name was registered again at another path: one
\* space is registered, at the new path, and the earlier path is not found.
C29_Witness ==
    /\ last.op = "Init" /\ last.res = "Ok" /\ last.was_active /\ edits = 0
    /\ Keys(config.spaces) = {last.name}
    /\ config.spaces[last.name] = last.arg
    /\ \A p \in SpacePaths \ {last.arg} :
          /\ roots[p] = "graph"
          /\ ~IsSpaceRegistered(config, p)
          /\ GetSpaceConfig(config, p) = None
====
